---- MODULE Spec2Model ----
(***************************************************************************)
(* Model of src/src/App.tsx: the ASIN lookup form (handleSubmit) and the   *)
(* decoding of the Keepa product payload into sales rank, current price    *)
(* and lowest price.                                                       *)
(*                                                                         *)
(* JavaScript values are tagged records: Num(n) is a number, JsNull and    *)
(* JsUndefined are null and undefined, Arr(s) an array.  Strings that are  *)
(* inspected character by character (the ASIN, the API key) are sequences  *)
(* of one-character strings.  Times are kept in minutes: every constant of *)
(* the code that is in milliseconds is a multiple of 60000.                *)
(***************************************************************************)
EXTENDS Integers, Sequences, FiniteSets, TLC

VARIABLES asin, apiKey, loading, error, result, pc, formattedASIN, request, response,
          hadResult  \* history: a result was on display when the last submit began

vars == <<asin, apiKey, loading, error, result, pc, formattedASIN, request, response, hadResult>>

(***************************************************************************)
(* Bounds of the model                                                     *)
(***************************************************************************)
\* Total number of raw entries over the five series of a decoded payload.
MaxTotalLen == 6
\* Number of characters typed after the (empty or 8-character) ASIN prefix.
MaxTail == 2

(***************************************************************************)
(* JavaScript values                                                       *)
(***************************************************************************)
Num(n) == [type |-> "number", n |-> n]
JsNull == [type |-> "null"]
JsUndefined == [type |-> "undefined"]
JsInfinity == [type |-> "infinity"]
Arr(s) == [type |-> "array", data |-> s]

\* a[i] for a JavaScript array a (0-based); out of range reads give undefined
At(a, i) == IF i >= 0 /\ i < Len(a) THEN a[i + 1] ELSE JsUndefined

\* ToBoolean(v) for the values that occur: numbers, null, undefined, arrays
JsTruthy(v) ==
    \/ v.type = "array"
    \/ v.type = "number" /\ v.n # 0

\* a < b for a number a and a number or Infinity b
JsLess(a, b) ==
    /\ a.type = "number"
    /\ \/ b.type = "infinity"
       \/ b.type = "number" /\ a.n < b.n

\* v / 100 for an integer number v, as whole units and hundredths
Div100(v) == [type |-> "decimal", whole |-> v.n \div 100, frac |-> v.n % 100]

(***************************************************************************)
(* Validity test of a raw value: v !== -1 && v != null && v > 0            *)
(***************************************************************************)
\* v !== -1
NotSentinel(v) == ~(v.type = "number" /\ v.n = -1)

\* v != null (loose: rejects null and undefined)
NotNullish(v) == v.type \notin {"null", "undefined"}

\* v > 0 (null > 0 and undefined > 0 are false)
Positive(v) == v.type = "number" /\ v.n > 0

IsValidRaw(v) == NotSentinel(v) /\ NotNullish(v) /\ Positive(v)

(***************************************************************************)
(* The product payload: product.csv?.[i] for the series indices used       *)
(***************************************************************************)
Slots == {1, 2, 3, 4, 18}

Csv(product, i) == product.csv[i]

Str(s) == [type |-> "string", s |-> s]

(***************************************************************************)
(* Sales rank: first of csv[3], csv[4] whose reverse walk finds a value    *)
(***************************************************************************)
RECURSIVE RankWalkLastPairOnly(_, _, _)
\* Mutant of RankWalk: looks at the last element only, like the price loop.
RankWalkLastPairOnly(h, i, cur) ==
    IF i < 1 THEN cur
    ELSE IF IsValidRaw(At(h, i)) THEN At(h, i) ELSE cur

RECURSIVE RankWalk(_, _, _)
\* for (let i = ...; i >= 1; i -= 2) { if (valid) { currentSalesRank = rank; break } }
RankWalk(h, i, cur) ==
    IF i < 1 THEN cur
    ELSE IF IsValidRaw(At(h, i)) THEN At(h, i)
    ELSE RankWalk(h, i - 2, cur)

RECURSIVE RankLoop(_, _, _)
\* for (const salesRankHistory of salesRankHistories) ...
RankLoop(hs, k, cur) ==
    IF k > Len(hs) THEN cur
    ELSE IF JsTruthy(hs[k]) /\ Len(hs[k].data) > 0
         THEN LET c == RankWalk(hs[k].data, Len(hs[k].data) - 1, cur)
              IN  IF JsTruthy(c) THEN c ELSE RankLoop(hs, k + 1, c)
         ELSE RankLoop(hs, k + 1, cur)

SalesRankHistories(product) == <<Csv(product, 3), Csv(product, 4)>>

CurrentSalesRank(product) == RankLoop(SalesRankHistories(product), 1, JsNull)

(***************************************************************************)
(* Lowest price: first of Amazon, Buy Box, New with a valid price          *)
(***************************************************************************)
\* Date.getTime() of 2011-01-01T00:00:00.000Z, in minutes
KeepaEpochMinutes == 21564000

MinutesPerDay == 1440

\* new Date(keepaEpochStart + ts * 60000).toLocaleDateString(): the calendar
\* day (UTC) of the instant
ToLocaleDateString(ts) ==
    [type |-> "date", day |-> (KeepaEpochMinutes + ts.n) \div MinutesPerDay]

PriceHistories(product) ==
    << [data |-> Csv(product, 1), type |-> "Amazon"],
       [data |-> Csv(product, 18), type |-> "Buy Box"],
       [data |-> Csv(product, 2), type |-> "New"] >>

RECURSIVE LowestScanLastTie(_, _, _)
\* Mutant of LowestScan: price <= lowestPrice keeps the last minimum.
LowestScanLastTie(data, i, low) ==
    IF i >= Len(data) THEN low
    ELSE LET timestamp == At(data, i)
             price == At(data, i + 1)
         IN  LowestScanLastTie(data, i + 2,
                 IF IsValidRaw(price) /\ ~JsLess(low.price, price)
                 THEN [price |-> price, ts |-> timestamp]
                 ELSE low)

RECURSIVE LowestScan(_, _, _)
\* for (let i = 0; i < data.length; i += 2) { ... if (price < lowestPrice) ... }
LowestScan(data, i, low) ==
    IF i >= Len(data) THEN low
    ELSE LET timestamp == At(data, i)
             price == At(data, i + 1)
         IN  LowestScan(data, i + 2,
                 IF IsValidRaw(price) /\ JsLess(price, low.price)
                 THEN [price |-> price, ts |-> timestamp]
                 ELSE low)

NoLowest ==
    [lowestBuyboxPrice30Days |-> JsNull,
     lowestBuyboxPriceDate |-> JsNull,
     priceSource |-> JsNull]

RECURSIVE LowestLoop(_, _)
\* for (const priceHistory of priceHistories) ...
LowestLoop(phs, k) ==
    IF k > Len(phs) THEN NoLowest
    ELSE IF JsTruthy(phs[k].data) /\ Len(phs[k].data.data) > 0
         THEN LET low == LowestScan(phs[k].data.data, 0,
                                    [price |-> JsInfinity, ts |-> JsNull])
              IN  IF low.price # JsInfinity
                  THEN [lowestBuyboxPrice30Days |-> Div100(low.price),
                        lowestBuyboxPriceDate |-> ToLocaleDateString(low.ts),
                        priceSource |-> Str(phs[k].type)]
                  ELSE LowestLoop(phs, k + 1)
         ELSE LowestLoop(phs, k + 1)

LowestPrice(product) == LowestLoop(PriceHistories(product), 1)

(***************************************************************************)
(* Current price: last element of the first of Amazon, Buy Box, New whose  *)
(* last element is valid                                                   *)
(***************************************************************************)
CurrentPriceHistories(product) ==
    <<Csv(product, 1), Csv(product, 18), Csv(product, 2)>>

RECURSIVE CurrentPriceLoop(_, _)
\* for (const priceData of currentPriceHistories) ...
CurrentPriceLoop(hs, k) ==
    IF k > Len(hs) THEN JsNull
    ELSE IF JsTruthy(hs[k]) /\ Len(hs[k].data) >= 2
         THEN LET lastPrice == At(hs[k].data, Len(hs[k].data) - 1)
              IN  IF IsValidRaw(lastPrice) THEN Div100(lastPrice)
                  ELSE CurrentPriceLoop(hs, k + 1)
         ELSE CurrentPriceLoop(hs, k + 1)

CurrentPrice(product) == CurrentPriceLoop(CurrentPriceHistories(product), 1)

(***************************************************************************)
(* The decode block of handleSubmit: the object passed to setResult        *)
(* (title, category, availability and lastUpdated are passed through and   *)
(* are not modelled)                                                       *)
(***************************************************************************)
\* Mutant of DecodeProduct: gives up on the prices when no rank was found.
DecodeProductBlocking(product, fASIN) ==
    LET rank == CurrentSalesRank(product)
        low == IF rank = JsNull THEN NoLowest ELSE LowestPrice(product)
    IN  [type |-> "object",
         asin |-> fASIN,
         salesRank |-> rank,
         price |-> IF rank = JsNull THEN JsNull ELSE CurrentPrice(product),
         lowestBuyboxPrice30Days |-> low.lowestBuyboxPrice30Days,
         lowestBuyboxPriceDate |-> low.lowestBuyboxPriceDate,
         priceSource |-> low.priceSource]

DecodeProduct(product, fASIN) ==
    LET low == LowestPrice(product)
    IN  [type |-> "object",
         asin |-> fASIN,
         salesRank |-> CurrentSalesRank(product),
         price |-> CurrentPrice(product),
         lowestBuyboxPrice30Days |-> low.lowestBuyboxPrice30Days,
         lowestBuyboxPriceDate |-> low.lowestBuyboxPriceDate,
         priceSource |-> low.priceSource]

(***************************************************************************)
(* The form: formatASIN, validateASIN and the validations of handleSubmit  *)
(***************************************************************************)
LowerCase ==
    <<"a", "b", "c", "d", "e", "f", "g", "h", "i", "j", "k", "l", "m",
      "n", "o", "p", "q", "r", "s", "t", "u", "v", "w", "x", "y", "z">>

UpperCase ==
    <<"A", "B", "C", "D", "E", "F", "G", "H", "I", "J", "K", "L", "M",
      "N", "O", "P", "Q", "R", "S", "T", "U", "V", "W", "X", "Y", "Z">>

Digits == {"0", "1", "2", "3", "4", "5", "6", "7", "8", "9"}

\* String.prototype.toUpperCase, character by character
ToUpperCase(s) ==
    [i \in 1..Len(s) |->
        IF \E j \in 1..Len(LowerCase) : LowerCase[j] = s[i]
        THEN UpperCase[CHOOSE j \in 1..Len(LowerCase) : LowerCase[j] = s[i]]
        ELSE s[i]]

\* the character class [A-Z0-9]
IsAZ09(c) == c \in Digits \/ \E j \in 1..Len(UpperCase) : UpperCase[j] = c

\* input.toUpperCase().replace(/[^A-Z0-9]/g, '')
FormatASIN(input) == SelectSeq(ToUpperCase(input), IsAZ09)

AsinLength == 10

\* /^[A-Z0-9]{10}$/.test(asin.toUpperCase())
ValidateASIN(a) ==
    LET u == ToUpperCase(a)
    IN  Len(u) = AsinLength /\ \A i \in 1..Len(u) : IsAZ09(u[i])

RECURSIVE TrimStart(_)
TrimStart(s) == IF s # <<>> /\ Head(s) = " " THEN TrimStart(Tail(s)) ELSE s

RECURSIVE TrimEnd(_)
TrimEnd(s) ==
    IF s # <<>> /\ s[Len(s)] = " " THEN TrimEnd(SubSeq(s, 1, Len(s) - 1)) ELSE s

\* String.prototype.trim
Trim(s) == TrimEnd(TrimStart(s))

\* Mutant of InputError: the API key is not checked.
InputErrorNoKeyCheck(fASIN, key) ==
    IF fASIN = <<>> THEN "Please enter an ASIN"
    ELSE IF ~ValidateASIN(fASIN) THEN "Please enter a valid 10-character ASIN"
    ELSE ""

\* The three validations of handleSubmit: the message set by the first that
\* fails, "" when all pass
InputError(fASIN, key) ==
    IF fASIN = <<>> THEN "Please enter an ASIN"
    ELSE IF ~ValidateASIN(fASIN) THEN "Please enter a valid 10-character ASIN"
    ELSE IF Trim(key) = <<>> THEN "Please enter your Keepa API key"
    ELSE ""

ThirtyDaysMinutes == 43200

\* Math.floor((Date.now() - 30 * 24 * 60 * 60 * 1000) / 60000), for
\* nowMinutes = Math.floor(Date.now() / 60000)
ThirtyDaysAgo(nowMinutes) == nowMinutes - ThirtyDaysMinutes

NoRequest == [type |-> "none"]

\* fetch(`https://api.keepa.com/product?key=..&domain=1&asin=..&history=1&since=..`)
FetchRequest(key, fASIN, since) ==
    [type |-> "fetch", key |-> key, asin |-> fASIN, since |-> since]

NoResponse == [kind |-> "none"]

\* Mutant of ResetResult: the previous result is left in place.
KeepResult == result

\* setResult(null) at the start of handleSubmit
ResetResult == JsNull

(***************************************************************************)
(* Inputs                                                                  *)
(***************************************************************************)
MaxInputLength == 10

TypedChars == {"a", "7", "-"}

AsinPrefixes == {<<>>, <<"B", "0", "8", "N", "5", "W", "R", "W">>}

SeqsUpTo(S, n) == UNION {[1..k -> S] : k \in 0..n}

\* what the ASIN field can hold (maxLength = 10)
AsinInputs ==
    {a \in {pre \o tl : pre \in AsinPrefixes, tl \in SeqsUpTo(TypedChars, MaxTail)} :
        Len(a) <= MaxInputLength}

ApiKeyInputs == {<<>>, <<" ">>, <<"k">>}

\* Math.floor(Date.now() / 60000) at the time of the lookup
NowMinutes == {KeepaEpochMinutes + 8350000}

\* Keepa time of the i-th pair of a series (ascending, ten days apart); with
\* NowMinutes the first pair is older than thirty days, the later ones are not
TimestampAt(i) == 8280000 + i * 14400

RawValues == {JsNull, Num(-1), Num(0), Num(1999), Num(2499)}

\* the series of L raw entries: timestamp, value, timestamp, value, ...
SeriesOfLen(L) ==
    {[i \in 1..L |-> IF i % 2 = 1 THEN Num(TimestampAt((i + 1) \div 2)) ELSE vs[i \div 2]] :
        vs \in [1..(L \div 2) -> RawValues]}

\* product.csv?.[i]: undefined, or an array of at most budget entries
SeriesChoices(budget) ==
    {JsUndefined} \cup {Arr(s) : s \in UNION {SeriesOfLen(L) : L \in 0..budget}}

Size(a) == IF a.type = "array" THEN Len(a.data) ELSE 0

Product(s1, s2, s3, s4, s18) ==
    [csv |-> (1 :> s1 @@ 2 :> s2 @@ 3 :> s3 @@ 4 :> s4 @@ 18 :> s18)]

\* one series per slot, each present or missing
SampleSeries(i) ==
    CASE i = 3 -> Arr(<<Num(TimestampAt(1)), Num(1999), Num(TimestampAt(2)), Num(-1)>>)
      [] i = 4 -> Arr(<<Num(TimestampAt(1)), Num(2499)>>)
      [] i = 1 -> Arr(<<Num(TimestampAt(1)), Num(2499), Num(TimestampAt(2)), Num(1999)>>)
      [] i = 18 -> Arr(<<Num(TimestampAt(1)), Num(1999)>>)
      [] i = 2 -> Arr(<<Num(TimestampAt(1)), Num(0), Num(TimestampAt(2))>>)

SampleProducts ==
    {[csv |-> [i \in Slots |-> IF i \in present THEN SampleSeries(i) ELSE JsUndefined]] :
        present \in SUBSET Slots}

\* what the fetch and response.json() can come to, apart from a product list
FailedResponses ==
    {[kind |-> "reject", isError |-> TRUE, message |-> "Failed to fetch"],
     [kind |-> "reject", isError |-> FALSE, message |-> ""],
     [kind |-> "http", status |-> "429"],
     [kind |-> "http", status |-> "500"],
     [kind |-> "json", products |-> JsUndefined],
     [kind |-> "json", products |-> Arr(<<>>)]}

Found(product) == [kind |-> "json", products |-> Arr(<<product>>)]

(***************************************************************************)
(* State machine                                                           *)
(***************************************************************************)
Init ==
    /\ asin = <<>>
    /\ apiKey = <<>>
    /\ loading = FALSE
    /\ error = ""
    /\ result = JsNull
    /\ pc = "idle"
    /\ formattedASIN = <<>>
    /\ request = NoRequest
    /\ response = NoResponse
    /\ hadResult = FALSE

\* onChange of the ASIN field
SetAsin ==
    /\ \E v \in AsinInputs : asin' = v
    /\ UNCHANGED <<apiKey, loading, error, result, pc, formattedASIN, request, response, hadResult>>

\* onChange of the API key field
SetApiKey ==
    /\ \E v \in ApiKeyInputs : apiKey' = v
    /\ UNCHANGED <<asin, loading, error, result, pc, formattedASIN, request, response, hadResult>>

\* handleSubmit up to the await of fetch; the submit button is disabled while
\* loading
Submit ==
    /\ ~loading
    /\ pc = "idle"
    /\ hadResult' = (result # JsNull)
    /\ formattedASIN' = FormatASIN(asin)
    /\ result' = ResetResult
    /\ response' = NoResponse
    /\ LET msg == InputError(FormatASIN(asin), apiKey)
       IN  IF msg # ""
           THEN /\ error' = msg
                /\ request' = NoRequest
                /\ UNCHANGED <<loading, pc>>
           ELSE /\ error' = ""
                /\ loading' = TRUE
                /\ pc' = "fetching"
                /\ \E now \in NowMinutes :
                      request' = FetchRequest(apiKey, FormatASIN(asin), ThirtyDaysAgo(now))
    /\ UNCHANGED <<asin, apiKey>>

\* the network answers the pending fetch with r
Respond(r) ==
    /\ pc = "fetching"
    /\ response' = r
    /\ pc' = "responded"
    /\ UNCHANGED <<asin, apiKey, loading, error, result, formattedASIN, request, hadResult>>

RespondFailed == pc = "fetching" /\ \E r \in FailedResponses : Respond(r)

RespondSample == pc = "fetching" /\ \E p \in SampleProducts : Respond(Found(p))

RespondDecode ==
    /\ pc = "fetching"
    /\ \E s1 \in SeriesChoices(MaxTotalLen) :
      \E s18 \in SeriesChoices(MaxTotalLen - Size(s1)) :
        \E s2 \in SeriesChoices(MaxTotalLen - Size(s1) - Size(s18)) :
          \E s3 \in SeriesChoices(MaxTotalLen - Size(s1) - Size(s18) - Size(s2)) :
            \E s4 \in SeriesChoices(MaxTotalLen - Size(s1) - Size(s18) - Size(s2) - Size(s3)) :
              Respond(Found(Product(s1, s2, s3, s4, s18)))

\* handleSubmit after the await: the checks of the response, the decode
\* block, catch and finally
Resume ==
    /\ pc = "responded"
    /\ IF response.kind = "reject"
       THEN /\ error' = IF response.isError THEN response.message
                        ELSE "Failed to fetch data from Keepa API"
            /\ UNCHANGED result
       ELSE IF response.kind = "http"
       THEN /\ error' = "API Error: " \o response.status
            /\ UNCHANGED result
       ELSE IF JsTruthy(response.products) /\ Len(response.products.data) > 0
       THEN /\ result' = DecodeProduct(response.products.data[1], formattedASIN)
            /\ UNCHANGED error
       ELSE /\ error' = "Product not found or invalid ASIN"
            /\ UNCHANGED result
    /\ loading' = FALSE
    /\ pc' = "idle"
    /\ UNCHANGED <<asin, apiKey, formattedASIN, request, response, hadResult>>

Next == SetAsin \/ SetApiKey \/ Submit \/ RespondFailed \/ RespondSample \/ Resume

Spec == Init /\ [][Next]_vars

\* a found product with every sample series present
RespondFull == pc = "fetching" /\ Respond(Found([csv |-> [i \in Slots |-> SampleSeries(i)]]))

LoadingNext == SetAsin \/ SetApiKey \/ Submit \/ RespondFailed \/ RespondFull \/ Resume

\* The lifecycle of a submission over every outcome of the fetch.  The
\* continuation of handleSubmit is a microtask of the settled promise: the
\* event loop runs it, hence the fairness of Resume.
FairSpec == Init /\ [][LoadingNext]_vars /\ WF_vars(Resume)

\* One lookup with valid inputs, over every payload within MaxTotalLen.
DecodeInit ==
    /\ asin = <<"B", "0", "8", "N", "5", "W", "R", "W", "a", "7">>
    /\ apiKey = <<"k">>
    /\ loading = TRUE
    /\ error = ""
    /\ result = JsNull
    /\ pc = "fetching"
    /\ formattedASIN = FormatASIN(asin)
    /\ \E now \in NowMinutes :
          request = FetchRequest(apiKey, FormatASIN(asin), ThirtyDaysAgo(now))
    /\ response = NoResponse
    /\ hadResult = FALSE

DecodeNext == RespondFailed \/ RespondDecode \/ Resume

DecodeSpec == DecodeInit /\ [][DecodeNext]_vars

(***************************************************************************)
(* Reference definitions for the properties: a series read as complete     *)
(* (timestamp, value) pairs, and the observations that count               *)
(***************************************************************************)
SeriesData(v) == IF v.type = "array" THEN v.data ELSE <<>>

PairCount(s) == Len(s) \div 2

PairTs(s, i) == s[2 * i - 1]

PairVal(s, i) == s[2 * i]

EvenLength(s) == Len(s) % 2 = 0

\* a number other than -1 that is strictly positive
ValidObservation(v) == v.type = "number" /\ v.n # -1 /\ v.n > 0

ValidPairs(s) == {i \in 1..PairCount(s) : ValidObservation(PairVal(s, i))}

ValidValues(s) == {PairVal(s, i) : i \in ValidPairs(s)}

Maximum(S) == CHOOSE x \in S : \A y \in S : y <= x

\* the value of the last valid pair, null when there is none
LatestValid(s) ==
    IF ValidPairs(s) = {} THEN JsNull ELSE PairVal(s, Maximum(ValidPairs(s)))

\* the first pair that holds the smallest valid value
EarliestMinimum(s) ==
    CHOOSE i \in ValidPairs(s) :
        \A j \in ValidPairs(s) :
            \/ PairVal(s, i).n < PairVal(s, j).n
            \/ PairVal(s, i).n = PairVal(s, j).n /\ i <= j

\* a lookup has completed with a product on display
Decoded == pc = "idle" /\ result # JsNull

Payload == response.products.data[1]

Series(i) == SeriesData(Csv(Payload, i))

PriceOrder == <<1, 18, 2>>

PriceNames == <<"Amazon", "Buy Box", "New">>

\* positions of PriceOrder whose series holds a valid pair
PriceCandidates == {k \in 1..3 : ValidPairs(Series(PriceOrder[k])) # {}}

Minimum(S) == CHOOSE x \in S : \A y \in S : x <= y

\* the series named by result.priceSource
SourceSeries ==
    Series(PriceOrder[CHOOSE k \in 1..3 : PriceNames[k] = result.priceSource.s])

\* start of the thirty-day window in Keepa minutes
WindowStart == request.since - KeepaEpochMinutes

\* the payload with the series of the slots in S removed
WithoutSeries(product, S) ==
    [csv |-> [i \in Slots |-> IF i \in S THEN JsUndefined ELSE product.csv[i]]]

\* the payload with every trailing unpaired entry dropped
Truncated(product) ==
    [csv |-> [i \in Slots |->
        IF product.csv[i].type = "array"
        THEN Arr(SubSeq(product.csv[i].data, 1, 2 * PairCount(product.csv[i].data)))
        ELSE product.csv[i]]]

(***************************************************************************)
(* Properties                                                              *)
(***************************************************************************)
\* C1: the lowest price only considers entries with timestamp >= windowStart
\* (now minus thirty days): the reported lowest price and its date come from a
\* valid pair of the source series inside the window, and a series whose valid
\* entries are all older than the window yields no lowest price.
C1_LowestWithinWindow ==
    Decoded /\ result.priceSource # JsNull =>
        \E i \in ValidPairs(SourceSeries) :
            /\ PairTs(SourceSeries, i).n >= WindowStart
            /\ result.lowestBuyboxPrice30Days = Div100(PairVal(SourceSeries, i))
            /\ result.lowestBuyboxPriceDate = ToLocaleDateString(PairTs(SourceSeries, i))

\* C2: the current price is the most recent valid value of the first of
\* Amazon, Buy Box, New that holds a valid value, divided by 100, even when
\* later pairs of that series hold -1; it is absent when none holds one.
C2_CurrentPriceIsLatestValid ==
    Decoded =>
        IF PriceCandidates = {} THEN result.price = JsNull
        ELSE result.price =
                 Div100(LatestValid(Series(PriceOrder[Minimum(PriceCandidates)])))

\* C3: the trailing unpaired entry of an odd-length series is ignored by every
\* metric: the result is the one computed from the complete pairs alone.
C3_OddTailIgnored ==
    Decoded => result = DecodeProduct(Truncated(Payload), formattedASIN)

\* C4: for even-length rank series the current sales rank is the value of the
\* last valid pair of csv[3], any number of trailing invalid pairs skipped;
\* when csv[3] has no valid pair it is that of csv[4], and it is absent only
\* when neither has a valid pair.
C4_CurrentRankIsLatestValid ==
    Decoded =>
        /\ EvenLength(Series(3)) /\ ValidPairs(Series(3)) # {} =>
               result.salesRank = LatestValid(Series(3))
        /\ EvenLength(Series(3)) /\ ValidPairs(Series(3)) = {} /\ EvenLength(Series(4)) =>
               result.salesRank = LatestValid(Series(4))

\* C4 witness: csv[3] has three pairs, only the first valid: the walk skipped
\* two trailing invalid pairs and reported the first.
C4_Witness ==
    /\ Decoded
    /\ Len(Series(3)) = 6
    /\ ValidPairs(Series(3)) = {1}
    /\ result.salesRank = PairVal(Series(3), 1)

\* C5: first success wins: the rank comes from csv[3] whenever it has a valid
\* value and from csv[4] only otherwise; the lowest price comes from the first
\* of Amazon, Buy Box, New with a valid entry, priceSource names that series,
\* and a later candidate is never used.
C5_FirstSuccessWins ==
    Decoded =>
        /\ IF ValidPairs(Series(3)) # {}
           THEN result.salesRank \in ValidValues(Series(3))
           ELSE result.salesRank \in ValidValues(Series(4)) \cup {JsNull}
        /\ IF PriceCandidates = {}
           THEN result.priceSource = JsNull /\ result.lowestBuyboxPrice30Days = JsNull
           ELSE /\ result.priceSource = Str(PriceNames[Minimum(PriceCandidates)])
                /\ result.lowestBuyboxPrice30Days \in
                       {Div100(v) : v \in ValidValues(Series(PriceOrder[Minimum(PriceCandidates)]))}

\* C6: the lowest price is the smallest valid value of its source series and
\* its date is that of the earliest pair holding that minimum.
C6_LowestIsEarliestMinimum ==
    Decoded =>
        IF result.priceSource = JsNull
        THEN result.lowestBuyboxPrice30Days = JsNull /\ result.lowestBuyboxPriceDate = JsNull
        ELSE /\ ValidPairs(SourceSeries) # {}
             /\ result.lowestBuyboxPrice30Days =
                    Div100(PairVal(SourceSeries, EarliestMinimum(SourceSeries)))
             /\ result.lowestBuyboxPriceDate =
                    ToLocaleDateString(PairTs(SourceSeries, EarliestMinimum(SourceSeries)))

\* C6 witness: the minimum occurs in two pairs after a higher price, and the
\* date reported is that of the first of the two.
C6_Witness ==
    /\ Decoded
    /\ result.priceSource # JsNull
    /\ ValidPairs(SourceSeries) = {1, 2, 3}
    /\ PairVal(SourceSeries, 1).n > PairVal(SourceSeries, 2).n
    /\ PairVal(SourceSeries, 2) = PairVal(SourceSeries, 3)
    /\ result.lowestBuyboxPriceDate = ToLocaleDateString(PairTs(SourceSeries, 2))
    /\ result.lowestBuyboxPriceDate # ToLocaleDateString(PairTs(SourceSeries, 3))

\* C7: no invalid raw value is reported: each metric is absent or derived from
\* a series value that is a number, not -1 and > 0, so a series whose values
\* are all invalid contributes nothing.
C7_OnlyValidValuesReported ==
    Decoded =>
        /\ result.salesRank \in
               {JsNull} \cup ValidValues(Series(3)) \cup ValidValues(Series(4))
        /\ result.price \in
               {JsNull} \cup {Div100(v) : v \in UNION {ValidValues(Series(i)) : i \in {1, 18, 2}}}
        /\ result.lowestBuyboxPrice30Days \in
               {JsNull} \cup {Div100(v) : v \in UNION {ValidValues(Series(i)) : i \in {1, 18, 2}}}

\* C8: decoding a found product always produces a result and no error; each
\* metric is what it is with the series of the other metrics removed, and what
\* its own loop computes; with every series empty all three are absent.
C8_MetricsDegradeIndependently ==
    pc = "idle" /\ response.kind = "json" /\ JsTruthy(response.products)
        /\ Len(response.products.data) > 0 =>
        /\ result # JsNull
        /\ error = ""
        /\ result.salesRank =
               DecodeProduct(WithoutSeries(Payload, {1, 2, 18}), formattedASIN).salesRank
        /\ result.price =
               DecodeProduct(WithoutSeries(Payload, {3, 4}), formattedASIN).price
        /\ result.lowestBuyboxPrice30Days =
               DecodeProduct(WithoutSeries(Payload, {3, 4}), formattedASIN).lowestBuyboxPrice30Days
        /\ result.price = CurrentPrice(Payload)
        /\ result.lowestBuyboxPrice30Days = LowestPrice(Payload).lowestBuyboxPrice30Days
        /\ (\A i \in Slots : Series(i) = <<>>) =>
               /\ result.salesRank = JsNull
               /\ result.price = JsNull
               /\ result.lowestBuyboxPrice30Days = JsNull

\* C8 witness: a decode with an odd-length rank series in which the rank is
\* absent while the current and the lowest price are reported.
C8_Witness ==
    /\ Decoded
    /\ ~EvenLength(Series(3))
    /\ result.salesRank = JsNull
    /\ result.price # JsNull
    /\ result.lowestBuyboxPrice30Days # JsNull

\* C9: no state persists across lookups: once a submission has completed, the
\* result is the decode of that submission's payload alone, and a submission
\* that ends in an error shows no result, whatever was shown before.
C9_NoStateAcrossLookups ==
    /\ error # "" => result = JsNull
    /\ pc = "idle" /\ response # NoResponse =>
           IF response.kind = "json" /\ JsTruthy(response.products)
                  /\ Len(response.products.data) > 0
           THEN result = DecodeProduct(Payload, request.asin) /\ error = ""
           ELSE result = JsNull /\ error # ""

\* C9 witness: a result was on display when the submit began, the lookup ended
\* in an error, and no result is left.
C9_Witness ==
    /\ hadResult
    /\ pc = "idle"
    /\ response.kind = "http"
    /\ error # ""
    /\ result = JsNull

\* the cleaned ASIN is ten characters of A-Z, 0-9 and the key is not blank
WellFormedRequest ==
    /\ Len(request.asin) = 10
    /\ \A i \in 1..Len(request.asin) :
           request.asin[i] \in Digits \cup {UpperCase[j] : j \in 1..Len(UpperCase)}
    /\ \E i \in 1..Len(request.key) : request.key[i] # " "

LoadingBracketsFetch ==
    /\ loading <=> pc # "idle"
    /\ loading => request # NoRequest
    /\ request # NoRequest => WellFormedRequest
    /\ ~(error # "" /\ result # JsNull)

\* C10: loading is true only after the validations passed, a fetch is issued
\* only for a ten-character alphanumeric ASIN and a non-blank key, error and
\* result are never both set, and whatever the fetch comes to, the submission
\* ends with loading false and exactly one of error and result set.
C10_LoadingBracketsFetch ==
    /\ []LoadingBracketsFetch
    /\ (pc = "responded") ~>
           (~loading /\ pc = "idle" /\ ((error # "") # (result # JsNull)))

\* C10 witness: the fetch threw, and the submission ended with loading false
\* and the error set.
C10_Witness ==
    /\ pc = "idle"
    /\ response.kind = "reject"
    /\ ~loading
    /\ error # ""
    /\ result = JsNull

====
